---- MODULE Spec2Model ----
(***************************************************************************)
(* A model of the Dispatch core of tera-proxy-game                         *)
(* (lib/connection/dispatch/index.js): the hook registry, the module host  *)
(* and the handle pipeline.                                                *)
(*                                                                         *)
(* JavaScript is single threaded: a top-level operation (hook, unhook,     *)
(* load, unload, reset, a timer expiry, handle, write) runs to completion  *)
(* before the next one starts.  The operations that call foreign code      *)
(* (load calls the module constructor, handle calls the hook callbacks)    *)
(* are split at those calls.                                               *)
(***************************************************************************)
EXTENDS Integers, Sequences, FiniteSets, TLC

\* Bounds of the model.
MaxHooks == 2        \* hook() registrations in one behaviour
MaxOrderHooks == 3   \* the same, where only the dispatch order is looked at
MaxPipeHooks == 3    \* the same, where the hooks parse, change and silence the frame
MaxDepth == 2        \* handle invocations inside one another

\* ------------------------------------------------------------------ values

WILDCARD == "*"
Opcodes == {"X", "Y"}
Namespaces == {"A", "B"}
None == "none"

\* Frame payloads (the bytes after the header) and parsed field values.
\* Payload 0 is a malformed frame (the codec cannot parse it); field value 0
\* is a value the codec cannot serialize.
Payloads == {0, 1, 2}
FieldValues == {0, 1, 2}

\* The default filter of hook(), and the filters the specifications draw from.
DefaultFilter == [fake |-> "false", incoming |-> "null", modified |-> "null", silenced |-> "false"]
AnyFilter == [fake |-> "null", incoming |-> "null", modified |-> "null", silenced |-> "null"]

VARIABLES
    modules,        \* this.modules: the names of the loaded modules
    loading,        \* the module whose constructor is running inside load(), or None
    hooks,          \* this.hooks: code -> ordering (a sequence of groups [order, hooks])
    hookObjs,       \* every hook object hook() has returned, by identity (1, 2, ...)
    timer,          \* per hook object: "none", "armed", "cleared" or "fired"
    protocolMap,    \* this.protocolMap: "mapped" or "undefined"
    connection,     \* this.connection: "connected", or None for a dispatcher built without one
    stack,          \* the handle invocations in progress, innermost last
    lastResult,     \* what the last finished top-level operation did
    nullCalls,      \* history: per hook object, the number of callback(null) calls
    unloadedHooks,  \* history: the hook objects that existed in a namespace when unload of it returned
    rolledBack,     \* history: the hook objects a failed load has filtered out
    unhooked,       \* history: the hook objects a caller's unhook() has returned for
    lateNull        \* history: the hook objects whose callback(null) ran after such an unhook()

vars == <<modules, loading, hooks, hookObjs, timer, protocolMap, connection, stack, lastResult,
          nullCalls, unloadedHooks, rolledBack, unhooked, lateNull>>

regVars == <<modules, loading, hooks, hookObjs, timer, protocolMap, connection>>
histVars == <<nullCalls, unloadedHooks, rolledBack, unhooked, lateNull>>

HookIds == 1..Len(hookObjs)

Range(s) == {s[i] : i \in 1..Len(s)}

\* ---------------------------------------------------------------- registry

\* binarySearch(ordering, {order}, (a, b) => a.order - b.order): the index of the
\* group with that order, or ~low (here -low, indices from 1) where it belongs.
RECURSIVE BinarySearch(_, _, _, _)
BinarySearch(ordering, order, low, high) ==
    IF low > high THEN -low
    ELSE LET mid == (low + high) \div 2
             cmp == ordering[mid].order - order
         IN  IF cmp < 0 THEN BinarySearch(ordering, order, mid + 1, high)
             ELSE IF cmp > 0 THEN BinarySearch(ordering, order, low, mid - 1)
             ELSE mid

\* ordering.splice(at, 0, group), with at counted from 1.
Splice(ordering, at, group) ==
    SubSeq(ordering, 1, at - 1) \o <<group>> \o SubSeq(ordering, at, Len(ordering))

\* A wrong "Add hook": a new group is spliced in even when the order has one.
AddHookAlwaysSplices(reg, code, order, id) ==
    LET ordering == IF code \in DOMAIN reg THEN reg[code] ELSE <<>>
        index == BinarySearch(ordering, order, 1, Len(ordering))
        at == IF index < 0 THEN -index ELSE index
    IN  [c \in DOMAIN reg \cup {code} |->
            IF c = code THEN Splice(ordering, at, [order |-> order, hooks |-> <<id>>])
            ELSE reg[c]]

\* The "Add hook" part of hook(): the registry with hook object id added under
\* code with the given order.
AddHook(reg, code, order, id) ==
    LET ordering == IF code \in DOMAIN reg THEN reg[code] ELSE <<>>
        index == BinarySearch(ordering, order, 1, Len(ordering))
        newOrdering ==
            IF index < 0
            THEN Splice(ordering, -index, [order |-> order, hooks |-> <<id>>])
            ELSE [ordering EXCEPT ![index].hooks = Append(@, id)]
    IN  [c \in DOMAIN reg \cup {code} |-> IF c = code THEN newOrdering ELSE reg[c]]

\* A wrong filter loop: only the first group of every code is filtered.
RemoveNamespaceFirstGroupOnly(reg, name) ==
    [c \in DOMAIN reg |->
        [i \in 1..Len(reg[c]) |->
            IF i = 1
            THEN [reg[c][i] EXCEPT !.hooks = SelectSeq(@, LAMBDA h : hookObjs[h].namespace # name)]
            ELSE reg[c][i]]]

\* ordering.hooks = ordering.hooks.filter(hook => hook.namespace !== name), for every
\* ordering of every code (unload, and the rollback of load).
RemoveNamespace(reg, name) ==
    [c \in DOMAIN reg |->
        [i \in 1..Len(reg[c]) |->
            [reg[c][i] EXCEPT !.hooks = SelectSeq(@, LAMBDA h : hookObjs[h].namespace # name)]]]

\* The registry part of unhook(hook): the first group of hook.code whose order is
\* hook.order loses the hook; nothing happens when the code has no ordering or
\* the ordering has no such group.
RemoveHook(reg, id) ==
    LET code == hookObjs[id].code IN
    IF code \notin DOMAIN reg THEN reg
    ELSE LET found == {j \in 1..Len(reg[code]) : reg[code][j].order = hookObjs[id].order} IN
         IF found = {} THEN reg
         ELSE LET g == CHOOSE j \in found : \A k \in found : j <= k IN
              [reg EXCEPT ![code][g].hooks = SelectSeq(@, LAMBDA h : h # id)]

\* Whether unhook(hook) reaches its clearTimeout: it returns early when the
\* hook's code has no ordering in the registry.
UnhookReachesClear(reg, id) == hookObjs[id].code \in DOMAIN reg

\* The hook objects that are in some group of the registry.
Registered(reg) ==
    UNION {UNION {Range(reg[c][i].hooks) : i \in 1..Len(reg[c])} : c \in DOMAIN reg}

\* ------------------------------------------------------------ the codec

DefVersions == {"v1", "v2"}            \* the definitions tera-data has for a named packet
Versions == {"raw", "*"} \cup DefVersions

\* A parsed event is an object: its identity ("cache": the object held by
\* eventCache, "clone": a copy) and its value.
\* protocol.parse(protocolVersion, code, defVersion, data): definition v1 reads the
\* field as it is, v2 (and "*", the latest) reads it mirrored; the malformed
\* payload 0 cannot be parsed, and nothing can without a protocol map.
ParseThrows(pmap, version, data) == pmap # "mapped" \/ data = 0
ParseValue(version, data) == IF version = "v1" THEN data ELSE 3 - data

\* protocol.write(protocolVersion, code, defVersion, event): the inverse of parse;
\* the field value 0 cannot be serialized.
WriteThrows(pmap, version, value) == pmap # "mapped" \/ value = 0
WriteValue(version, value) == IF version = "v1" THEN value ELSE 3 - value

\* A wrong deepClone: the object itself.
DeepCloneShares(event) == event

\* deepClone(event): a new object with the same value.
DeepClone(event) == [ref |-> "clone", val |-> event.val]

\* ------------------------------------------------- top-level operations

Idle == stack = <<>>

\* lastResult after an operation other than a finished handle or write.
NoResult ==
    [op |-> None, outcome |-> None, code |-> None, input |-> 0, data |-> 0, modified |-> FALSE,
     silenced |-> FALSE, calls |-> <<>>, sent |-> None, caught |-> 0,
     lastBool |-> None,
     write |-> None, incoming |-> FALSE, fake |-> FALSE, ret |-> None]

\* hook(namespace, name, version, opts, cb) called through the wrapper of a
\* module (a loaded one, or the one whose constructor is running), at most limit
\* times in a behaviour.  The argument checks throw and leave the state
\* unchanged: a "*" hook takes no numbered version, a named hook needs the
\* protocol map and, unless raw, an existing definition.
HookArgsOk(code, version) ==
    /\ version \in Versions
    /\ code = WILDCARD => version \notin DefVersions
    /\ code # WILDCARD => protocolMap = "mapped" /\ version \in DefVersions \cup {"raw"}

Hook(limit, namespace, code, version, filter, order, timeout) ==
    /\ Idle
    /\ namespace = loading \/ (loading = None /\ namespace \in modules)
    /\ Len(hookObjs) < limit
    /\ HookArgsOk(code, version)
    /\ LET id == Len(hookObjs) + 1 IN
        /\ hookObjs' = Append(hookObjs, [namespace |-> namespace, code |-> code,
                                          filter |-> filter, order |-> order,
                                          definitionVersion |-> version])
        /\ timer' = Append(timer, IF timeout THEN "armed" ELSE "none")
        /\ nullCalls' = Append(nullCalls, 0)
        /\ hooks' = AddHook(hooks, code, order, id)
    /\ UNCHANGED <<modules, loading, protocolMap, connection, stack,
                   unloadedHooks, rolledBack, unhooked, lateNull>>
    /\ lastResult' = NoResult

\* unhook(hook) called with a hook object that hook() returned.
Unhook(id) ==
    /\ Idle
    /\ id \in HookIds
    /\ hooks' = RemoveHook(hooks, id)
    /\ timer' = IF UnhookReachesClear(hooks, id) /\ timer[id] = "armed"
                THEN [timer EXCEPT ![id] = "cleared"] ELSE timer
    /\ unhooked' = unhooked \cup {id}
    /\ UNCHANGED <<modules, loading, hookObjs, protocolMap, connection, stack,
                   nullCalls, unloadedHooks, rolledBack, lateNull>>
    /\ lastResult' = NoResult

\* A wrong timer callback: callback(null) without this.unhook(hook).
TimerFiresWithoutUnhook(id) ==
    /\ stack = <<>> /\ loading = None
    /\ id \in HookIds
    /\ timer[id] = "armed"
    /\ timer' = [timer EXCEPT ![id] = "fired"]
    /\ nullCalls' = [nullCalls EXCEPT ![id] = @ + 1]
    /\ lateNull' = IF id \in unhooked THEN lateNull \cup {id} ELSE lateNull
    /\ lastResult' = NoResult
    /\ UNCHANGED <<modules, loading, hooks, hookObjs, protocolMap, connection, stack,
                   unloadedHooks, rolledBack, unhooked>>

\* The timer of hook(..., {timeout}) expires: this.unhook(hook), then
\* hook.callback(null).
TimerFires(id) ==
    /\ Idle /\ loading = None
    /\ id \in HookIds
    /\ timer[id] = "armed"
    /\ hooks' = RemoveHook(hooks, id)
    /\ timer' = [timer EXCEPT ![id] = "fired"]
    /\ nullCalls' = [nullCalls EXCEPT ![id] = @ + 1]
    /\ lateNull' = IF id \in unhooked THEN lateNull \cup {id} ELSE lateNull
    /\ UNCHANGED <<modules, loading, hookObjs, protocolMap, connection, stack,
                   unloadedHooks, rolledBack, unhooked>>
    /\ lastResult' = NoResult

\* load(name, from): up to the call of the module constructor.  A module that
\* is loaded already is returned as it is.
LoadBegin(name) ==
    /\ Idle /\ loading = None
    /\ name \notin modules
    /\ loading' = name
    /\ UNCHANGED <<modules, hooks, hookObjs, timer, protocolMap, connection, stack>>
    /\ UNCHANGED histVars
    /\ lastResult' = NoResult

\* What a load that failed hands back: null.
LoadResult(outcome) == [NoResult EXCEPT !.op = "load", !.outcome = outcome]

\* load: the constructor has returned, and load returns the module (which
\* lastResult does not record).
LoadReturns ==
    /\ Idle /\ loading # None
    /\ modules' = modules \cup {loading}
    /\ loading' = None
    /\ UNCHANGED <<hooks, hookObjs, timer, protocolMap, connection, stack>>
    /\ UNCHANGED histVars
    /\ lastResult' = NoResult

\* A wrong catch block of load: the hooks of the broken module stay.
LoadThrowsWithoutRollback ==
    /\ Idle /\ loading # None
    /\ loading' = None
    /\ UNCHANGED <<modules, hooks, hookObjs, timer, protocolMap, connection, stack>>
    /\ UNCHANGED histVars
    /\ lastResult' = LoadResult("null")

\* load: from.require or the constructor has thrown; the hooks of the namespace
\* are filtered out of every group and load returns null.
LoadThrows ==
    /\ Idle /\ loading # None
    /\ hooks' = RemoveNamespace(hooks, loading)
    /\ loading' = None
    /\ rolledBack' = rolledBack \cup {h \in 1..Len(hookObjs) : hookObjs[h].namespace = loading}
    /\ UNCHANGED <<modules, hookObjs, timer, protocolMap, connection, stack,
                   nullCalls, unloadedHooks, unhooked, lateNull>>
    /\ lastResult' = LoadResult("null")

HooksOf(names) == {h \in HookIds : hookObjs[h].namespace \in names}

\* unload(name) of a loaded module (of another it only logs and returns false):
\* its hooks are filtered out of every group, its destructor runs (what it
\* throws is caught), and it leaves this.modules.
Unload(name) ==
    /\ Idle /\ loading = None
    /\ name \in modules
    /\ hooks' = RemoveNamespace(hooks, name)
    /\ modules' = modules \ {name}
    /\ unloadedHooks' = unloadedHooks \cup HooksOf({name})
    /\ UNCHANGED <<loading, hookObjs, timer, protocolMap, connection, stack,
                   nullCalls, rolledBack, unhooked, lateNull>>
    /\ lastResult' = NoResult

\* reset(): unload of every loaded module, then modules.clear() and hooks.clear().
Reset ==
    /\ Idle /\ loading = None
    /\ modules' = {}
    /\ hooks' = [c \in {} |-> <<>>]
    /\ unloadedHooks' = unloadedHooks \cup HooksOf(modules)
    /\ UNCHANGED <<loading, hookObjs, timer, protocolMap, connection, stack,
                   nullCalls, rolledBack, unhooked, lateNull>>
    /\ lastResult' = NoResult

\* setProtocolVersion(version): the protocol map is the one of the version, or
\* undefined for a version that protocol.maps does not have.
SetProtocolVersion(map) ==
    /\ Idle /\ loading = None
    /\ protocolMap' = map
    /\ UNCHANGED <<modules, loading, hooks, hookObjs, timer, connection, stack>>
    /\ UNCHANGED histVars
    /\ lastResult' = NoResult

\* ------------------------------------------------------------ iterateHooks

Ordering(reg, code) == IF code \in DOMAIN reg THEN reg[code] ELSE <<>>

\* iterator.next() of an ordering's array iterator that has handed out idx - 1
\* groups: the next group (a reference, named by its order) or done.
OuterNext(ordering, idx) ==
    IF idx <= Len(ordering) THEN [done |-> FALSE, order |-> ordering[idx].order]
    ELSE [done |-> TRUE, order |-> 0]

\* group.hooks of the group object an iterator handed out.
GroupHooks(ordering, order) ==
    LET found == {j \in 1..Len(ordering) : ordering[j].order = order} IN
    IF found = {} THEN <<>> ELSE ordering[CHOOSE j \in found : TRUE].hooks

\* The generator after its first two next() calls (lines 21-25).  side is the
\* ordering whose group a yield* is walking (None between groups), arr the
\* array that yield* took from group.hooks and ai the position in it; live
\* tells whether the group still holds that array (push changes the array,
\* filter puts a new one in its place).
GenInit(reg, code) ==
    [gv |-> OuterNext(Ordering(reg, WILDCARD), 1), gi |-> 2,
     cv |-> OuterNext(Ordering(reg, code), 1), ci |-> 2,
     side |-> None, arr |-> <<>>, ai |-> 1, live |-> TRUE]

\* A wrong line 31: the opcode's group goes first on equal order.
GlobalGoesFirstStrictly(gv, cv) == ~gv.done /\ (cv.done \/ gv.order < cv.order)

\* Line 31: the "*" group goes next when there is one and the opcode has no
\* group left or one of an order that is not smaller.
GlobalGoesFirst(gv, cv) == ~gv.done /\ (cv.done \/ gv.order <= cv.order)

\* One resumption of the generator (lines 27-38): the hook it yields and its
\* state after, or done.
RECURSIVE GenResume(_, _, _)
GenResume(reg, code, g) ==
    IF g.side # None
    THEN IF g.ai <= Len(g.arr)
         THEN [done |-> FALSE, hook |-> g.arr[g.ai], gen |-> [g EXCEPT !.ai = @ + 1]]
         ELSE IF g.side = "global"
         THEN GenResume(reg, code,
                [g EXCEPT !.side = None, !.arr = <<>>, !.ai = 1, !.live = TRUE, !.gi = @ + 1,
                          !.gv = OuterNext(Ordering(reg, WILDCARD), g.gi)])
         ELSE GenResume(reg, code,
                [g EXCEPT !.side = None, !.arr = <<>>, !.ai = 1, !.live = TRUE, !.ci = @ + 1,
                          !.cv = OuterNext(Ordering(reg, code), g.ci)])
    ELSE IF g.gv.done /\ g.cv.done
    THEN [done |-> TRUE, hook |-> 0, gen |-> g]
    ELSE IF GlobalGoesFirst(g.gv, g.cv)
    THEN GenResume(reg, code,
            [g EXCEPT !.side = "global",
                      !.arr = GroupHooks(Ordering(reg, WILDCARD), g.gv.order)])
    ELSE GenResume(reg, code,
            [g EXCEPT !.side = "code",
                      !.arr = GroupHooks(Ordering(reg, code), g.cv.order)])

\* Whether the generator g of a handle of opcode fcode is inside the yield* of
\* the group of the given code and order.
Walks(g, fcode, code, order) ==
    \/ g.side = "global" /\ code = WILDCARD /\ g.gv.order = order
    \/ g.side = "code" /\ code = fcode /\ g.cv.order = order

\* hook() has pushed hook object id onto the array of a group (line 260): a
\* yield* that is walking that very array will reach it.
PushSeenBy(g, fcode, code, order, id) ==
    IF Walks(g, fcode, code, order) /\ g.live THEN [g EXCEPT !.arr = Append(@, id)] ELSE g

\* A wrong removal: the hook is spliced out of the array that yield* walks, so
\* the hooks behind it move up by one under the iterator.
SpliceUnderWalk(g, fcode, code, order, id) ==
    IF Walks(g, fcode, code, order) /\ g.live
    THEN [g EXCEPT !.arr = SelectSeq(@, LAMBDA h : h # id)]
    ELSE g

\* unhook() has put a filtered array in the place of a group's array (line 269):
\* a yield* that is walking the old array goes on walking it.
FilterLeaves(g, fcode, code, order, id) ==
    IF Walks(g, fcode, code, order) THEN [g EXCEPT !.live = FALSE] ELSE g

\* Everything the generator yields when the registry does not change under it.
RECURSIVE IterateFrom(_, _, _)
IterateFrom(reg, code, g) ==
    LET r == GenResume(reg, code, g) IN
    IF r.done THEN <<>> ELSE <<r.hook>> \o IterateFrom(reg, code, r.gen)

IterateHooks(reg, code) == IterateFrom(reg, code, GenInit(reg, code))

\* ------------------------------------------------------------------ handle

\* JavaScript values of the hooks count (line 449).
UNDEF == [t |-> "undefined"]
NAN == [t |-> "NaN"]
Num(n) == [t |-> "number", n |-> n]
\* ordering.size: an Array has a length and no size.
ArraySize(ordering) == UNDEF
JsAdd(a, b) == IF a.t = "number" /\ b.t = "number" THEN Num(a.n + b.n) ELSE NAN
JsStrictEquals(a, b) == a.t # "NaN" /\ b.t # "NaN" /\ a = b

HooksCount(reg, code) ==
    JsAdd(IF WILDCARD \in DOMAIN reg THEN ArraySize(reg[WILDCARD]) ELSE Num(0),
          IF code \in DOMAIN reg THEN ArraySize(reg[code]) ELSE Num(0))

\* eventCache: per definition version the cached event object, with, as history,
\* the bytes it was parsed from, how many hooks had returned true and how many
\* re-writes had succeeded when it was parsed, and whether a raw hook has
\* changed the bytes since.
CacheKeys == Versions \ {"raw"}
NoEntry == [has |-> FALSE, val |-> 0, from |-> 0, atTrues |-> 0, atCommits |-> 0,
            stale |-> FALSE]
EmptyCache == [v \in CacheKeys |-> NoEntry]

\* A wrong line 488: the cached event is never used.
CacheNeverHits(cache, version) == FALSE

\* Line 488, eventCache[defVersion] || ...: whether the version's event is cached.
CacheHit(cache, version) == cache[version].has

\* A wrong line 503: the cache is kept after the re-write.
CacheKeptAfterCommit(cache) == cache

\* Line 503, eventCache = []: the cache after a re-write.
CacheAfterCommit(cache) == EmptyCache

\* The cache entries after a raw hook has left the bytes d where they were before.
Staled(cache, before, d) ==
    [v \in CacheKeys |-> [cache[v] EXCEPT !.stale = @ \/ (cache[v].has /\ before # d)]]
NoEvent == [ref |-> None, val |-> 0]

FlagOf(b) == IF b THEN "true" ELSE "false"

\* A wrong "check flags": line 456, the check of filter.modified, is missing.
FilterPassesWithoutModified(filter, fake, incoming, modified, silenced) ==
    /\ ~(filter.fake # "null" /\ filter.fake # (IF fake THEN "true" ELSE "false"))
    /\ ~(filter.incoming # "null" /\ filter.incoming # (IF incoming THEN "true" ELSE "false"))
    /\ ~(filter.silenced # "null" /\ filter.silenced # (IF silenced THEN "true" ELSE "false"))

\* The "check flags" lines 453-457: the hook runs unless a specified predicate of
\* its filter differs from the frame's flag.
FilterPasses(filter, fake, incoming, modified, silenced) ==
    /\ ~(filter.fake # "null" /\ filter.fake # FlagOf(fake))
    /\ ~(filter.incoming # "null" /\ filter.incoming # FlagOf(incoming))
    /\ ~(filter.modified # "null" /\ filter.modified # FlagOf(modified))
    /\ ~(filter.silenced # "null" /\ filter.silenced # FlagOf(silenced))

\* getMessageName(this.protocolMap, code, version) with a numeric code reads
\* map.code: a TypeError when there is no protocol map.
GetMessageNameThrows(pmap) == pmap # "mapped"

\* Whether the catch block of a raw hook (lines 474-483) itself throws: it reads
\* e.message of what the callback threw and calls getMessageName.
RawCatchThrows(pmap, out) == out = "throwNull" \/ GetMessageNameThrows(pmap)

\* Whether what a structured hook's callback, parse or re-write threw leaves
\* handle: the catch blocks at lines 504 and 515 are inside the try of the catch
\* block at line 525, so only what that last one throws does.
OuterCatchThrows(pmap) == GetMessageNameThrows(pmap)

\* The local state of handle(data, incoming, fake) at line 447, for a frame of
\* the given opcode; write is None for a frame off the wire and "server" /
\* "client" for one that write(outgoing, ...) passes in.
NewFrame(reg, code, data, incoming, write) ==
    [code |-> code, data |-> data, copy |-> data, incoming |-> incoming,
     fake |-> write # None, write |-> write,
     modified |-> FALSE, silenced |-> FALSE,
     eventCache |-> EmptyCache, iter |-> 0, hooks |-> HooksCount(reg, code),
     gen |-> GenInit(reg, code),
     phase |-> "iter", cur |-> 0, event |-> NoEvent,
     \* history of the invocation
     calls |-> <<>>,                              \* the hooks whose callback it invoked
     parses |-> [v \in CacheKeys |-> 0],          \* parse calls that returned, per version
     parseCalls |-> [v \in CacheKeys |-> 0],      \* parse calls, per version
     trues |-> 0, commits |-> 0,                  \* hooks that returned true / re-writes done
     sullied |-> {},                              \* versions whose event a hook changed without returning a boolean
     touched |-> FALSE,                           \* a hook changed the bytes or returned true
     caught |-> 0,                                \* exceptions caught
     lastBool |-> None]                           \* the last boolean a hook returned

Top == stack[Len(stack)]
Pop == SubSeq(stack, 1, Len(stack) - 1)
SetTop(f) == [stack EXCEPT ![Len(stack)] = f]

\* What handle hands back, and what write around it (lines 306-310) then does:
\* sent is the connection method it calls and ret what it returns.
Result(f, outcome) ==
    [op |-> IF f.write = None THEN "handle" ELSE "write",
     outcome |-> outcome, code |-> f.code, input |-> f.copy, data |-> f.data,
     modified |-> f.modified, silenced |-> f.silenced, calls |-> f.calls,
     sent |-> IF f.write # None /\ outcome = "bytes" THEN f.write ELSE None,
     caught |-> f.caught, lastBool |-> f.lastBool,
     write |-> f.write, incoming |-> f.incoming, fake |-> f.fake,
     ret |-> IF f.write = None \/ outcome = "raised" THEN None
             ELSE IF outcome = "bytes" THEN "true" ELSE "false"]

\* The connection method write(outgoing, ...) sends with.
Target(outgoing) == IF outgoing THEN "server" ELSE "client"

\* A write that ends before handle: it returns false (why: no connection, no
\* version, or the codec could not serialize), or the catch block of the
\* serialization raises.
WriteFailed(outgoing, why) ==
    [NoResult EXCEPT !.op = "write", !.outcome = why, !.write = Target(outgoing),
                     !.ret = IF why = "raised" THEN None ELSE "false"]

\* A wrong handle that keeps its event cache and its flags in the dispatcher:
\* a nested invocation starts by clearing them for the ones around it too.
EnterSharedState(code, data, incoming, write) ==
    IF WILDCARD \notin DOMAIN hooks /\ code \notin DOMAIN hooks
    THEN /\ lastResult' = Result(NewFrame(hooks, code, data, incoming, write), "bytes")
         /\ UNCHANGED stack
    ELSE /\ stack' = Append([i \in 1..Len(stack) |->
                                [stack[i] EXCEPT !.eventCache = EmptyCache,
                                                 !.modified = FALSE, !.silenced = FALSE]],
                            NewFrame(hooks, code, data, incoming, write))
         /\ lastResult' = NoResult

\* handle(data, incoming, fake), lines 386-449, for a frame of a mapped opcode
\* other than C_CHECK_VERSION: without an ordering for "*" and for the opcode
\* it returns data; else it sets up its local state.
Enter(code, data, incoming, write) ==
    IF WILDCARD \notin DOMAIN hooks /\ code \notin DOMAIN hooks
    THEN /\ lastResult' = Result(NewFrame(hooks, code, data, incoming, write), "bytes")
         /\ UNCHANGED stack
    ELSE /\ stack' = Append(stack, NewFrame(hooks, code, data, incoming, write))
         /\ lastResult' = NoResult

\* The connection hands handle a frame off the wire.
HandleBegin(code, data, incoming) ==
    /\ Idle /\ loading = None
    /\ Enter(code, data, incoming, None)
    /\ UNCHANGED regVars
    /\ UNCHANGED histVars

\* write(outgoing, buffer), lines 275-277 and 306: without a connection it
\* returns false; else the copy of the buffer goes through
\* handle(data, !outgoing, true).
WriteBuffer(outgoing, code, data) ==
    IF connection = None
    THEN lastResult' = WriteFailed(outgoing, "noConnection") /\ UNCHANGED stack
    ELSE Enter(code, data, ~outgoing, Target(outgoing))

\* write(outgoing, name, version, event), lines 275-306, with the name of the
\* opcode (named) or its number: without a connection or a version it returns
\* false; when protocol.write throws, the catch block logs getMessageName(...),
\* which reads the protocol map for a number, and returns false; else the bytes
\* go through handle(data, !outgoing, true).
WriteEvent(outgoing, code, named, version, value) ==
    IF connection = None
    THEN lastResult' = WriteFailed(outgoing, "noConnection") /\ UNCHANGED stack
    ELSE IF version = "missing"
    THEN lastResult' = WriteFailed(outgoing, "noVersion") /\ UNCHANGED stack
    ELSE IF WriteThrows(protocolMap, version, value)
    THEN /\ lastResult' = WriteFailed(outgoing,
                IF ~named /\ GetMessageNameThrows(protocolMap) THEN "raised"
                ELSE "unserializable")
         /\ UNCHANGED stack
    ELSE Enter(code, WriteValue(version, value), ~outgoing, Target(outgoing))

\* A module (or the proxy) calls write with a buffer.
WriteBegin(outgoing, code, data) ==
    /\ Idle /\ loading = None
    /\ WriteBuffer(outgoing, code, data)
    /\ UNCHANGED regVars
    /\ UNCHANGED histVars

\* A module (or the proxy) calls write with an event to serialize.
WriteNamed(outgoing, code, named, version, value) ==
    /\ Idle /\ loading = None
    /\ WriteEvent(outgoing, code, named, version, value)
    /\ UNCHANGED regVars
    /\ UNCHANGED histVars

\* The event handed to a structured hook (lines 488-490) out of a cache entry.
EventFor(entry, lastHook) ==
    LET cached == [ref |-> "cache", val |-> entry.val] IN
    IF lastHook THEN cached ELSE DeepClone(cached)

\* The for-of loop takes the next hook from the generator (line 451), checks
\* its filter and, for a structured hook, gets its event; then the callback is
\* called (phase "cb").
HandleNext ==
    /\ stack # <<>>
    /\ Top.phase = "iter"
    /\ LET f == Top
           r == GenResume(hooks, f.code, f.gen)
       IN
       /\ ~r.done
       /\ LET h == hookObjs[r.hook]
              v == h.definitionVersion
              f1 == [f EXCEPT !.gen = r.gen]
              f2 == [f1 EXCEPT !.iter = @ + 1]
              lastHook == JsStrictEquals(Num(f2.iter), f2.hooks)
              called == [f2 EXCEPT !.phase = "cb", !.cur = r.hook, !.calls = Append(@, r.hook)]
          IN
          IF ~FilterPasses(h.filter, f.fake, f.incoming, f.modified, f.silenced)
          THEN stack' = SetTop(f1) /\ UNCHANGED lastResult
          ELSE IF v = "raw"
          THEN stack' = SetTop(called) /\ UNCHANGED lastResult
          ELSE IF CacheHit(f2.eventCache, v)
          THEN /\ stack' = SetTop([called EXCEPT !.event = EventFor(f2.eventCache[v], lastHook)])
               /\ UNCHANGED lastResult
          ELSE IF ParseThrows(protocolMap, v, f2.data)
          THEN LET f3 == [f2 EXCEPT !.parseCalls[v] = @ + 1, !.caught = @ + 1] IN
               IF OuterCatchThrows(protocolMap)
               THEN stack' = Pop /\ lastResult' = Result(f3, "raised")
               ELSE stack' = SetTop(f3) /\ UNCHANGED lastResult
          ELSE LET entry == [has |-> TRUE, val |-> ParseValue(v, f2.data), from |-> f2.data,
                             atTrues |-> f2.trues, atCommits |-> f2.commits,
                             stale |-> FALSE]
               IN /\ stack' = SetTop([called EXCEPT !.eventCache[v] = entry,
                                                     !.parseCalls[v] = @ + 1,
                                                     !.parses[v] = @ + 1,
                                                     !.event = EventFor(entry, lastHook)])
                  /\ UNCHANGED lastResult
    /\ UNCHANGED regVars
    /\ UNCHANGED histVars

\* What a callback does with the bytes or the event it is given, and what it
\* returns or throws.
Keep == [set |-> FALSE, to |-> 0]
SetTo(x) == [set |-> TRUE, to |-> x]
Mutations == {Keep} \cup {SetTo(x) : x \in Payloads}
RawOuts == {"undefined", "true", "false", "same", "buffer", "throw", "throwNull"}
EventOuts == {"undefined", "true", "false", "throw", "throwNull"}

\* A wrong line 471: a raw hook's true does not clear silenced.
SilencedOnlySet(silenced, out) == silenced \/ out = "false"

\* Line 471, if(typeof result === 'boolean') silenced = !result.
SilencedAfter(silenced, out) ==
    IF out = "true" THEN FALSE ELSE IF out = "false" THEN TRUE ELSE silenced

\* The history of the booleans returned, after a hook has returned out.
BoolAfter(f, out) == IF out \in {"true", "false"} THEN [f EXCEPT !.lastBool = out] ELSE f

\* Lines 462-483: the raw hook's callback has written mut into the buffer it was
\* given and then returned out (for "buffer": a new buffer holding buf) or thrown.
AfterRaw(f, out, mut, buf) ==
    LET d1 == IF mut.set THEN mut.to ELSE f.data
        f1 == [f EXCEPT !.data = d1, !.phase = "iter", !.cur = 0,
                        !.touched = @ \/ d1 # f.data,
                        !.eventCache = Staled(@, f.data, d1)]
    IN  IF out \in {"throw", "throwNull"}
        THEN [frame |-> [f1 EXCEPT !.caught = @ + 1],
              raised |-> RawCatchThrows(protocolMap, out)]
        ELSE IF out = "buffer"
        THEN [frame |-> [f1 EXCEPT !.modified = @ \/ buf # d1, !.data = buf,
                                   !.touched = @ \/ buf # d1,
                                   !.eventCache = Staled(@, d1, buf)],
              raised |-> FALSE]
        ELSE [frame |-> BoolAfter([f1 EXCEPT !.modified = @ \/ d1 # f.copy,
                                             !.silenced = SilencedAfter(@, out)], out),
              raised |-> FALSE]

\* Lines 492-523: the structured hook's callback has set the field of its event
\* to mut and then returned out or thrown.  An event that is the cached object
\* itself changes in the cache too.
AfterEvent(f, out, mut) ==
    LET v == hookObjs[f.cur].definitionVersion
        e1 == IF mut.set THEN mut.to ELSE f.event.val
        cache1 == IF f.event.ref = "cache" /\ f.eventCache[v].has
                  THEN [f.eventCache EXCEPT ![v].val = e1] ELSE f.eventCache
        f1 == [f EXCEPT !.eventCache = cache1, !.phase = "iter", !.cur = 0,
                        !.event = NoEvent,
                        !.sullied = IF e1 # f.event.val /\ out = "undefined"
                                    THEN @ \cup {v} ELSE @]
        f2 == BoolAfter([f1 EXCEPT !.modified = TRUE, !.silenced = FALSE, !.trues = @ + 1,
                                   !.touched = TRUE], out)
    IN  IF out = "true"
        THEN IF WriteThrows(protocolMap, v, e1)
             THEN [frame |-> [f2 EXCEPT !.caught = @ + 1],
                   raised |-> OuterCatchThrows(protocolMap)]
             ELSE [frame |-> [f2 EXCEPT !.data = WriteValue(v, e1),
                                        !.eventCache = CacheAfterCommit(@),
                                        !.commits = @ + 1, !.sullied = {}],
                   raised |-> FALSE]
        ELSE IF out = "false"
        THEN [frame |-> BoolAfter([f1 EXCEPT !.silenced = TRUE], out), raised |-> FALSE]
        ELSE IF out \in {"throw", "throwNull"}
        THEN [frame |-> [f1 EXCEPT !.caught = @ + 1],
              raised |-> OuterCatchThrows(protocolMap)]
        ELSE [frame |-> f1, raised |-> FALSE]

\* The callback of the current hook runs and handle deals with what it did; an
\* exception that a catch block throws leaves handle.
HandleCallback(outs, muts) ==
    /\ stack # <<>>
    /\ Top.phase = "cb"
    /\ \E out \in outs, mut \in muts :
        \E buf \in (IF out = "buffer" THEN Payloads ELSE {0}) :
            LET raw == hookObjs[Top.cur].definitionVersion = "raw" IN
            /\ ~raw => out \in EventOuts
            /\ LET r == IF raw THEN AfterRaw(Top, out, mut, buf)
                        ELSE AfterEvent(Top, out, mut)
               IN  IF r.raised
                   THEN stack' = Pop /\ lastResult' = Result(r.frame, "raised")
                   ELSE stack' = SetTop(r.frame) /\ UNCHANGED lastResult
    /\ UNCHANGED regVars
    /\ UNCHANGED histVars

\* A wrong line 538: handle returns the bytes of a silenced frame too.
HandleReturnIgnoresSilenced ==
    /\ stack # <<>>
    /\ Top.phase = "iter"
    /\ GenResume(hooks, Top.code, Top.gen).done
    /\ stack' = Pop
    /\ lastResult' = Result(Top, "bytes")
    /\ UNCHANGED regVars
    /\ UNCHANGED histVars

\* The generator is done: handle returns (line 538), and write around it sends
\* what it got unless that is false (lines 307-310).
HandleReturn ==
    /\ stack # <<>>
    /\ Top.phase = "iter"
    /\ GenResume(hooks, Top.code, Top.gen).done
    /\ stack' = Pop
    /\ lastResult' = Result(Top, IF ~Top.silenced THEN "bytes" ELSE "suppress")
    /\ UNCHANGED regVars
    /\ UNCHANGED histVars

\* Whether the ordering of code has a group of the given order.
HasGroup(reg, code, order) ==
    \E j \in 1..Len(Ordering(reg, code)) : Ordering(reg, code)[j].order = order

\* The callback that is running calls hook(...) for its module: the hook is
\* added as by a top-level hook(), and when it is pushed onto the array of a
\* group that exists the handle invocations that are walking that array see it.
CallbackHook(limit, code, version, filter, order) ==
    /\ stack # <<>>
    /\ Top.phase = "cb"
    /\ Len(hookObjs) < limit
    /\ HookArgsOk(code, version)
    /\ LET id == Len(hookObjs) + 1 IN
        /\ hookObjs' = Append(hookObjs, [namespace |-> hookObjs[Top.cur].namespace,
                                          code |-> code, filter |-> filter, order |-> order,
                                          definitionVersion |-> version])
        /\ timer' = Append(timer, "none")
        /\ nullCalls' = Append(nullCalls, 0)
        /\ hooks' = AddHook(hooks, code, order, id)
        /\ stack' = IF HasGroup(hooks, code, order)
                     THEN [i \in 1..Len(stack) |->
                            [stack[i] EXCEPT !.gen = PushSeenBy(@, stack[i].code, code, order, id)]]
                     ELSE stack
    /\ UNCHANGED <<modules, loading, protocolMap, connection, lastResult,
                   unloadedHooks, rolledBack, unhooked, lateNull>>

\* The callback that is running calls unhook(hook), for its own hook or another:
\* as a top-level unhook(), and the handle invocations that are walking the
\* array of the hook's group go on with the array they have.
CallbackUnhook(id) ==
    /\ stack # <<>>
    /\ Top.phase = "cb"
    /\ id \in HookIds
    /\ hooks' = RemoveHook(hooks, id)
    /\ timer' = IF UnhookReachesClear(hooks, id) /\ timer[id] = "armed"
                THEN [timer EXCEPT ![id] = "cleared"] ELSE timer
    /\ unhooked' = unhooked \cup {id}
    /\ stack' = IF HasGroup(hooks, hookObjs[id].code, hookObjs[id].order)
                 THEN [i \in 1..Len(stack) |->
                        [stack[i] EXCEPT !.gen = FilterLeaves(@, stack[i].code, hookObjs[id].code,
                                                              hookObjs[id].order, id)]]
                 ELSE stack
    /\ UNCHANGED <<modules, loading, hookObjs, protocolMap, connection, lastResult,
                   nullCalls, unloadedHooks, rolledBack, lateNull>>

\* The callback that is running calls write(outgoing, buffer), at most depth
\* handle invocations deep: a nested handle, which the callback waits for.
CallbackWrite(depth, outgoing, code, data) ==
    /\ stack # <<>>
    /\ Top.phase = "cb"
    /\ Len(stack) < depth
    /\ WriteBuffer(outgoing, code, data)
    /\ UNCHANGED regVars
    /\ UNCHANGED histVars

\* ------------------------------------------------------- specifications

Orders == {0, 1}

InitRegistry ==
    /\ modules = {}
    /\ loading = None
    /\ hooks = [c \in {} |-> <<>>]
    /\ hookObjs = <<>>
    /\ timer = <<>>
    /\ stack = <<>>
    /\ lastResult = NoResult
    /\ nullCalls = <<>>
    /\ unloadedHooks = {}
    /\ rolledBack = {}
    /\ unhooked = {}
    /\ lateNull = {}

\* The module host and the registry: modules A and B load (or fail to), hook
\* "*" and X with or without a timeout, unhook, are unloaded and reset, timers
\* expire, and frames of X go through the hooks, which only look at them.
InitLife == InitRegistry /\ protocolMap = "mapped" /\ connection = "connected"

LifeHooks ==
    {[namespace |-> "A", code |-> WILDCARD, order |-> 0, timeout |-> TRUE],
     [namespace |-> "A", code |-> "X", order |-> 1, timeout |-> FALSE],
     [namespace |-> "B", code |-> "X", order |-> 0, timeout |-> TRUE]}

NextLife ==
    \/ \E name \in Namespaces : LoadBegin(name)
    \/ LoadReturns
    \/ LoadThrows
    \/ \E k \in LifeHooks : Hook(MaxHooks, k.namespace, k.code, "raw", AnyFilter, k.order, k.timeout)
    \/ \E id \in HookIds : Unhook(id)
    \/ \E id \in HookIds : TimerFires(id)
    \/ \E name \in Namespaces : Unload(name)
    \/ Reset
    \/ HandleBegin("X", 1, TRUE)
    \/ HandleNext
    \/ HandleCallback({"undefined"}, {Keep})
    \/ HandleReturn

SpecLife == InitLife /\ [][NextLife]_vars

Frames == {stack[i] : i \in 1..Len(stack)}

\* Dispatch order: module A hooks "*", X and Y with orders 0 and 1 and with a
\* filter that takes every frame or only outgoing ones, unhooks, and incoming
\* frames of X go through the hooks, which only look at them.
OutgoingOnly == [AnyFilter EXCEPT !.incoming = "false"]

NextOrder ==
    \/ LoadBegin("A")
    \/ LoadReturns
    \/ \E code \in {WILDCARD} \cup Opcodes, order \in Orders :
            Hook(MaxOrderHooks, "A", code, "raw", AnyFilter, order, FALSE)
    \/ Hook(MaxOrderHooks, "A", "X", "raw", OutgoingOnly, 0, FALSE)
    \/ \E id \in HookIds : Unhook(id)
    \/ HandleBegin("X", 1, TRUE)
    \/ HandleNext
    \/ HandleCallback({"undefined"}, {Keep})
    \/ HandleReturn

SpecOrder == InitLife /\ [][NextOrder]_vars

\* The pipeline: module A hooks X raw and with the definitions v1 and v2, and
\* "*" with the latest definition; frames of X with every payload come in, and
\* the callbacks change what they are given, return anything or throw.
PipeHooks == {<<"X", "raw">>, <<"X", "v1">>, <<"X", "v2">>, <<WILDCARD, "*">>}

NextPipe ==
    \/ LoadBegin("A")
    \/ LoadReturns
    \/ \E k \in PipeHooks : Hook(MaxPipeHooks, "A", k[1], k[2], AnyFilter, 0, FALSE)
    \/ \E data \in Payloads : HandleBegin("X", data, TRUE)
    \/ HandleNext
    \/ HandleCallback(RawOuts, Mutations)
    \/ HandleReturn

SpecPipe == InitLife /\ [][NextPipe]_vars

\* Filters: module A hooks X raw with a filter that names one predicate (or
\* none, or hook()'s default) and with the definition v1; frames of X come in
\* and go out, off the wire and through write, and the callbacks return
\* anything, a new buffer included.
Filters ==
    {DefaultFilter, AnyFilter,
     [AnyFilter EXCEPT !.incoming = "true"], [AnyFilter EXCEPT !.incoming = "false"],
     [AnyFilter EXCEPT !.modified = "true"], [AnyFilter EXCEPT !.modified = "false"],
     [AnyFilter EXCEPT !.silenced = "true"], [AnyFilter EXCEPT !.fake = "true"]}

NextFilter ==
    \/ LoadBegin("A")
    \/ LoadReturns
    \/ \E filter \in Filters : Hook(MaxHooks, "A", "X", "raw", filter, 0, FALSE)
    \/ Hook(MaxHooks, "A", "X", "v1", AnyFilter, 0, FALSE)
    \/ \E incoming \in BOOLEAN : HandleBegin("X", 1, incoming)
    \/ \E outgoing \in BOOLEAN : WriteBegin(outgoing, "X", 1)
    \/ HandleNext
    \/ HandleCallback({"undefined", "true", "false", "buffer"}, {Keep})
    \/ HandleReturn

SpecFilter == InitLife /\ [][NextFilter]_vars

\* Errors: the dispatcher is built with or without a protocol version and gets
\* one set later; module A hooks "*" raw and with the latest definition and X
\* with v1; the callbacks return, make their event unserializable or throw an
\* Error or null.
InitErr ==
    InitRegistry /\ protocolMap \in {"mapped", "undefined"} /\ connection = "connected"

NextErr ==
    \/ LoadBegin("A")
    \/ LoadReturns
    \/ \E map \in {"mapped", "undefined"} : SetProtocolVersion(map)
    \/ \E k \in {<<WILDCARD, "raw">>, <<WILDCARD, "*">>, <<"X", "v1">>} :
            Hook(MaxHooks, "A", k[1], k[2], AnyFilter, 0, FALSE)
    \/ \E data \in Payloads : HandleBegin("X", data, TRUE)
    \/ HandleNext
    \/ HandleCallback({"undefined", "true", "throw", "throwNull"}, {Keep, SetTo(0)})
    \/ HandleReturn

SpecErr == InitErr /\ [][NextErr]_vars

\* Writes: the dispatcher is built with or without a connection; module A
\* hooks "*" and X raw, for every frame or (by default) for real ones only, and
\* buffers and events are written in both directions; the callbacks return
\* nothing or false, or throw null.
InitWrite ==
    /\ InitRegistry
    /\ protocolMap = "mapped"
    /\ connection \in {"connected", None}

NextWrite ==
    \/ LoadBegin("A")
    \/ LoadReturns
    \/ \E code \in {WILDCARD, "X"}, filter \in {AnyFilter, DefaultFilter} :
            Hook(MaxHooks, "A", code, "raw", filter, 0, FALSE)
    \/ \E outgoing \in BOOLEAN : WriteBegin(outgoing, "X", 1)
    \/ \E outgoing, named \in BOOLEAN, version \in {"v1", "v2", "missing"}, value \in FieldValues :
            WriteNamed(outgoing, "X", named, version, value)
    \/ HandleNext
    \/ HandleCallback({"undefined", "false", "throwNull"}, {Keep})
    \/ HandleReturn

SpecWrite == InitWrite /\ [][NextWrite]_vars

\* Unhooks under way: module A hooks "*" and X raw with orders 0 and 1, and
\* while incoming frames of X go through the hooks the callbacks unhook their
\* own hook or another; hooks are unhooked between the frames too.
NextUnhook ==
    \/ LoadBegin("A")
    \/ LoadReturns
    \/ \E code \in {WILDCARD, "X"}, order \in Orders :
            Hook(MaxOrderHooks, "A", code, "raw", AnyFilter, order, FALSE)
    \/ \E id \in HookIds : Unhook(id)
    \/ \E id \in HookIds : CallbackUnhook(id)
    \/ HandleBegin("X", 1, TRUE)
    \/ HandleNext
    \/ HandleCallback({"undefined"}, {Keep})
    \/ HandleReturn

SpecUnhook == InitLife /\ [][NextUnhook]_vars

\* Hooks under way: module A hooks "*" and X raw with orders 0 and 1, and while
\* incoming frames of X go through the hooks the callbacks register more hooks
\* of the same kind.
NextRehook ==
    \/ LoadBegin("A")
    \/ LoadReturns
    \/ \E code \in {WILDCARD, "X"}, order \in Orders :
            Hook(MaxOrderHooks, "A", code, "raw", AnyFilter, order, FALSE)
    \/ \E code \in {WILDCARD, "X"}, order \in Orders :
            CallbackHook(MaxOrderHooks, code, "raw", AnyFilter, order)
    \/ HandleBegin("X", 1, TRUE)
    \/ HandleNext
    \/ HandleCallback({"undefined"}, {Keep})
    \/ HandleReturn

SpecRehook == InitLife /\ [][NextRehook]_vars

\* Nested writes: module A hooks X raw and with the definition v1 for every
\* frame; frames of X come in, and the callbacks write frames of X to the
\* server, change their event and return nothing, true or false.
NextNested ==
    \/ LoadBegin("A")
    \/ LoadReturns
    \/ \E version \in {"raw", "v1"} : Hook(MaxHooks, "A", "X", version, AnyFilter, 0, FALSE)
    \/ HandleBegin("X", 1, TRUE)
    \/ \E data \in {1, 2} : CallbackWrite(MaxDepth, TRUE, "X", data)
    \/ HandleNext
    \/ HandleCallback({"undefined", "true", "false"}, {Keep, SetTo(2)})
    \/ HandleReturn

SpecNested == InitLife /\ [][NextNested]_vars

\* ------------------------------------------------------------------ claims

\* The hook objects whose callback a handle in progress, or the handle or write
\* that has just finished, has invoked.
Invoked == UNION {Range(f.calls) : f \in Frames} \cup Range(lastResult.calls)

\* The stable merge: by ascending order, on equal order the hooks of "*" before
\* those of the opcode, and inside a group by registration.
MergesBefore(a, b) ==
    \/ hookObjs[a].order < hookObjs[b].order
    \/ /\ hookObjs[a].order = hookObjs[b].order
       /\ \/ hookObjs[a].code = WILDCARD /\ hookObjs[b].code # WILDCARD
          \/ hookObjs[a].code = hookObjs[b].code /\ a < b

RECURSIVE MergeOf(_)
MergeOf(S) ==
    IF S = {} THEN <<>>
    ELSE LET first == CHOOSE a \in S : \A b \in S \ {a} : MergesBefore(a, b)
         IN  <<first>> \o MergeOf(S \ {first})

HooksFor(code) == {h \in Registered(hooks) : hookObjs[h].code \in {WILDCARD, code}}

\* The hooks of the merge whose filter takes an unmodified, unsilenced frame
\* that came in off the wire.
TakesIncoming(h) == FilterPasses(hookObjs[h].filter, FALSE, TRUE, FALSE, FALSE)

IsPrefix(s, t) == Len(s) <= Len(t) /\ s = SubSeq(t, 1, Len(s))

\* C1: the generator yields the hooks of "*" and of the opcode in the order of
\* the stable merge, and handle invokes those whose filter takes the frame in
\* that order: a handle in progress has invoked a prefix of them, a finished one
\* all of them.
C1_DispatchOrderIsStableMerge ==
    /\ \A code \in Opcodes : IterateHooks(hooks, code) = MergeOf(HooksFor(code))
    /\ \A f \in Frames :
            IsPrefix(f.calls, SelectSeq(MergeOf(HooksFor(f.code)), TakesIncoming))
    /\ lastResult.op = "handle"
            => lastResult.calls = SelectSeq(MergeOf(HooksFor("X")), TakesIncoming)

\* C1's case: handle has invoked a hook of "*" before a hook of X of the same
\* order that was registered earlier.
C1_Witness ==
    /\ lastResult.op = "handle"
    /\ \E i, j \in 1..Len(lastResult.calls) :
        LET a == lastResult.calls[i]
            b == lastResult.calls[j]
        IN  /\ i < j /\ b < a
            /\ hookObjs[a].code = WILDCARD /\ hookObjs[b].code = "X"
            /\ hookObjs[a].order = hookObjs[b].order

\* The frames whose current hook is a structured one that has its event and
\* whose callback is about to run.
AtStructuredCallback ==
    {f \in Frames : f.phase = "cb" /\ hookObjs[f.cur].definitionVersion # "raw"}

CurVersion(f) == hookObjs[f.cur].definitionVersion

\* The number of hooks of a definition version whose callback a frame invoked.
CallsOfVersion(f, v) ==
    Cardinality({i \in 1..Len(f.calls) : hookObjs[f.calls[i]].definitionVersion = v})

\* C2 as claimed: in one handle invocation parse is called at most once per
\* definition version, whatever the hooks return and whether or not it throws.
C2_ParseOncePerVersion ==
    \A f \in Frames : \A v \in CacheKeys : f.parseCalls[v] <= 1

\* C2 as amended: parse returns at most once per definition version before the
\* first re-write and after each re-write (a re-write clears the cache, so the
\* hooks after it parse again); a parse that throws is not cached and is
\* repeated for every later hook of its version.
C2_ParseOncePerVersionAndCommit ==
    \A f \in Frames : \A v \in CacheKeys : f.parses[v] <= 1 + f.commits

\* C2's case: two hooks of one definition version have run on one parse.
C2_Witness ==
    \E f \in Frames : \E v \in CacheKeys :
        CallsOfVersion(f, v) >= 2 /\ f.parses[v] = 1 /\ f.parseCalls[v] = 1

\* C3 as claimed: a hook that comes after a hook of its definition version that
\* changed its event and returned no boolean is given the value parsed from the
\* current bytes.
C3_LaterHookSeesCurrentBytes ==
    \A f \in AtStructuredCallback :
        CurVersion(f) \in f.sullied => f.event.val = ParseValue(CurVersion(f), f.data)

\* C3 as amended: such a hook is given the value that parse returned for its
\* version, whatever the earlier hook did to its own event; that value is the
\* one of the current bytes unless a raw hook has changed the bytes since the
\* parse (a raw hook does not invalidate the cache).
C3_LaterHookSeesParsedValue ==
    \A f \in AtStructuredCallback :
        LET v == CurVersion(f)
            entry == f.eventCache[v]
        IN  v \in f.sullied =>
                /\ f.event.val = ParseValue(v, entry.from)
                /\ ~entry.stale => f.event.val = ParseValue(v, f.data)

\* C3's case: a hook is about to run after a hook of its version changed its
\* event and returned no boolean.
C3_Witness ==
    \E f \in AtStructuredCallback : CurVersion(f) \in f.sullied /\ f.data # 0

\* C4 as claimed: once a structured hook has returned true, the event of the
\* next structured hook was parsed after that, not cached before it.
C4_FreshEventAfterTrue ==
    \A f \in AtStructuredCallback :
        f.trues > 0 => f.eventCache[CurVersion(f)].atTrues = f.trues

\* C4 as amended: once a structured hook has returned true and the re-write of
\* its event has succeeded, the event of the next structured hook was parsed
\* from the re-written bytes (a raw hook may have changed them before that
\* parse, not after); when the re-write throws, the bytes and the cache stay.
C4_FreshEventAfterCommit ==
    \A f \in AtStructuredCallback :
        LET entry == f.eventCache[CurVersion(f)] IN
        f.commits > 0 =>
            /\ entry.atCommits = f.commits
            /\ ~entry.stale => f.event.val = ParseValue(CurVersion(f), f.data)

\* C4's case: a structured hook is about to run after a re-write.
C4_Witness ==
    \E f \in AtStructuredCallback : f.commits > 0 /\ f.caught = 0

\* C8: a hook whose callback handle invokes has a filter of which every
\* specified predicate equals the frame's flag when the hook is reached; one
\* with incoming = true runs on incoming frames only, and one with modified =
\* true only after a hook of the invocation changed the bytes or returned true.
C8_FilterMatchesFlags ==
    \A f \in Frames :
        f.phase = "cb" =>
            LET filter == hookObjs[f.cur].filter IN
            /\ filter.fake = "true" => f.fake
            /\ filter.fake = "false" => ~f.fake
            /\ filter.incoming = "true" => f.incoming
            /\ filter.incoming = "false" => ~f.incoming
            /\ filter.modified = "true" => f.modified /\ f.touched
            /\ filter.modified = "false" => ~f.modified
            /\ filter.silenced = "true" => f.silenced
            /\ filter.silenced = "false" => ~f.silenced

\* C8's case: a hook that asks for modified frames runs on an incoming frame
\* that an earlier hook has modified.
C8_Witness ==
    \E f \in Frames :
        /\ f.phase = "cb" /\ hookObjs[f.cur].filter.modified = "true"
        /\ f.incoming /\ f.modified

\* C10: whatever a callback, parse or the re-write throws, handle returns.
C10_HandleNeverRaises == lastResult.outcome # "raised"

\* C5: after unload(M) of a loaded module has returned, no handle invokes a hook
\* of namespace M that was registered before the unload; a module that is loaded
\* again starts with new hooks.  (Nothing is unloaded while a handle is in
\* progress here, so every invocation in sight is later than every unload.)
C5_UnloadedNeverInvoked == Invoked \cap unloadedHooks = {}

\* C5's case: a hook was in the registry when its module was unloaded, and a
\* later handle has run the hook of another module.
C5_Witness ==
    /\ \E h \in unloadedHooks : h \notin unhooked /\ timer[h] # "fired"
    /\ lastResult.op = "handle"
    /\ lastResult.calls # <<>>

\* C6: a hook whose timeout has expired had callback(null) called exactly once,
\* is in no group of the registry and is invoked by no later handle; and
\* callback(null) is called by nothing else.
C6_TimeoutOneShot ==
    \A h \in HookIds :
        /\ nullCalls[h] <= 1
        /\ nullCalls[h] = 1 <=> timer[h] = "fired"
        /\ timer[h] = "fired" => h \notin Registered(hooks) /\ h \notin Invoked

\* C6's case: a timeout has expired and a later handle has run another hook.
C6_Witness ==
    /\ \E h \in HookIds : timer[h] = "fired" /\ nullCalls[h] = 1
    /\ lastResult.op = "handle"
    /\ lastResult.calls # <<>>

\* C7: once unhook(h) has returned, h is in no group and its timeout never
\* calls callback(null).
C7_UnhookIsFinal ==
    \A h \in unhooked : h \notin Registered(hooks) /\ h \notin lateNull

\* The hook objects that unhook, unload, reset, a failed load or their own
\* timeout has taken out of the registry.
Removed ==
    unhooked \cup unloadedHooks \cup rolledBack \cup {h \in HookIds : timer[h] = "fired"}

\* C9 as claimed: no group of the registry is empty.
C9_NoEmptyGroup ==
    \A c \in DOMAIN hooks : \A i \in 1..Len(hooks[c]) : hooks[c][i].hooks # <<>>

\* C9 as amended: every ordering is sorted by strictly ascending order, every
\* group holds, in registration order, exactly the hooks registered for its code
\* and order since the registry was last cleared and not removed since, and a
\* group is empty only when its hooks were removed: hook() creates no empty
\* group, and the removals leave the emptied group in place.
C9_GroupsHoldLiveHooks ==
    \A c \in DOMAIN hooks : \A i \in 1..Len(hooks[c]) :
        LET g == hooks[c][i]
            mine == {h \in HookIds : hookObjs[h].code = c /\ hookObjs[h].order = g.order}
        IN  /\ i > 1 => hooks[c][i - 1].order < g.order
            /\ Range(g.hooks) = mine \ Removed
            /\ \A j \in 2..Len(g.hooks) : g.hooks[j - 1] < g.hooks[j]
            /\ mine # {}
            /\ g.hooks = <<>> => mine \subseteq Removed

\* C9's case: a group that unhook, unload or a timeout has emptied is in the
\* registry beside a group that holds a hook.
C9_Witness ==
    \E c \in DOMAIN hooks : \E i, j \in 1..Len(hooks[c]) :
        hooks[c][i].hooks = <<>> /\ hooks[c][j].hooks # <<>>

\* The hooks of a group that belong to another namespace than name.
OfOthers(group, name) ==
    SelectSeq(group.hooks, LAMBDA h : hookObjs[h].namespace # name)

\* C11: a load(name) that ends without the module (the loader or the
\* constructor threw) returns null, leaves this.modules as it was and without
\* name, leaves no hook of namespace name in any group, the hooks the
\* constructor registered included, and leaves every group with the hooks of
\* the other namespaces it had, in their order.
C11_FailedLoadRollsBack ==
    [][(loading # None /\ loading' = None /\ loading \notin modules') =>
        /\ lastResult'.op = "load" /\ lastResult'.outcome = "null"
        /\ modules' = modules
        /\ HooksOf({loading}) \cap Registered(hooks') = {}
        /\ DOMAIN hooks' = DOMAIN hooks
        /\ \A c \in DOMAIN hooks :
              /\ Len(hooks'[c]) = Len(hooks[c])
              /\ \A i \in 1..Len(hooks[c]) :
                    /\ hooks'[c][i].order = hooks[c][i].order
                    /\ hooks'[c][i].hooks = OfOthers(hooks[c][i], loading)
                    /\ OfOthers(hooks'[c][i], loading) = OfOthers(hooks[c][i], loading)]_vars

\* C11's case: a load has returned null after its constructor had registered a
\* hook, and a hook of another module is still in the registry.
C11_Witness ==
    /\ lastResult.op = "load" /\ lastResult.outcome = "null"
    /\ rolledBack # {}
    /\ \E h \in Registered(hooks) : h \notin rolledBack

\* C12: a handle that returns hands back SUPPRESS exactly when silenced is true
\* after its last hook, and the current bytes otherwise; with no ordering for
\* "*" and none for the opcode it hands back the bytes it was given and calls
\* no callback.
C12_SuppressIffSilenced ==
    lastResult.outcome \in {"bytes", "suppress"} =>
        /\ lastResult.outcome = "suppress" <=> lastResult.silenced
        /\ (WILDCARD \notin DOMAIN hooks /\ lastResult.code \notin DOMAIN hooks) =>
              /\ lastResult.outcome = "bytes"
              /\ lastResult.data = lastResult.input
              /\ lastResult.calls = <<>>
        /\ (lastResult.calls = <<>>) =>
              lastResult.outcome = "bytes" /\ lastResult.data = lastResult.input

\* C12's case: a handle has returned SUPPRESS after a hook that silenced the
\* frame and a later hook that ran on the silenced frame.
C12_Witness ==
    /\ lastResult.op = "handle" /\ lastResult.outcome = "suppress"
    /\ Len(lastResult.calls) >= 2

\* C13: write(outgoing, ...) puts its frame through handle as a fake frame with
\* incoming = !outgoing; it calls sendServer (outgoing) or sendClient once and
\* returns true exactly when the serialization succeeded and handle did not
\* return SUPPRESS, and in every other case it sends nothing and returns false.
C13_WriteSendsOrReturnsFalse ==
    lastResult.op = "write" =>
        /\ lastResult.outcome \in {"bytes", "suppress", "raised"} =>
              lastResult.fake /\ (lastResult.incoming <=> lastResult.write = "client")
        /\ lastResult.ret \in {"true", "false"}
        /\ lastResult.ret = "true" <=> lastResult.outcome = "bytes"
        /\ lastResult.ret = "true" => lastResult.sent = lastResult.write
        /\ lastResult.ret = "false" => lastResult.sent = None

\* C14: in one handle invocation the silenced flag after a hook is what the last
\* boolean returned says: false once a hook has returned true after the hook
\* that silenced the frame, so that handle returns the bytes unless a later
\* hook returns false again.
C14_TrueClearsSilenced ==
    /\ \A f \in Frames :
          f.phase = "iter" =>
              /\ f.lastBool = "true" => ~f.silenced
              /\ f.silenced <=> f.lastBool = "false"
    /\ lastResult.outcome \in {"bytes", "suppress"} =>
          (lastResult.outcome = "bytes" <=> lastResult.lastBool # "false")

\* C14's case: a hook that takes silenced frames only has run, a later hook
\* has returned true, and handle has returned the bytes.
C14_Witness ==
    /\ lastResult.op = "handle" /\ lastResult.outcome = "bytes"
    /\ lastResult.lastBool = "true"
    /\ \E i \in 1..Len(lastResult.calls) :
          hookObjs[lastResult.calls[i]].filter.silenced = "true"

\* Whether a sequence holds no element twice.
NoRepeat(seq) == \A i, j \in 1..Len(seq) : seq[i] = seq[j] => i = j

\* C16: when callbacks call unhook during handle, the hooks that are still
\* registered when handle returns (all take the frame here) were each invoked
\* exactly once and in the order of the merge, and while handle is under way no
\* hook has been invoked twice and the still registered ones invoked so far are
\* a prefix of the merge.
C16_UnhookKeepsIteration ==
    /\ \A f \in Frames :
          /\ NoRepeat(f.calls)
          /\ IsPrefix(SelectSeq(f.calls, LAMBDA h : h \in Registered(hooks)),
                      MergeOf(HooksFor(f.code)))
    /\ lastResult.op = "handle" =>
          /\ NoRepeat(lastResult.calls)
          /\ SelectSeq(lastResult.calls, LAMBDA h : h \in Registered(hooks))
                = MergeOf(HooksFor(lastResult.code))

\* C16's case: a handle has returned after a callback unhooked a hook (its own
\* or another) while hooks of the frame were still to come, and those ran.
C16_Witness ==
    /\ lastResult.op = "handle"
    /\ \E i, j \in 1..Len(lastResult.calls) :
          /\ i < j
          /\ lastResult.calls[i] \in unhooked
          /\ lastResult.calls[j] \in Registered(hooks)

\* C19: once unhook(h) has returned, no handle invokes h, the handle that was
\* under way when a callback called unhook(h) included: no step in which a
\* handle calls the callback of its next hook calls one that was unhooked.
C19_UnhookedNeverInvoked ==
    [][(stack # <<>> /\ Len(stack') = Len(stack) /\ Top.phase = "iter" /\ Top'.phase = "cb")
            => Top'.cur \notin unhooked]_vars

\* C18: within one handle invocation no hook is invoked twice, also when the
\* callbacks register hooks on the opcode or on "*" during the invocation.
C18_EachHookOnce ==
    /\ \A f \in Frames : \A i, j \in 1..Len(f.calls) : i # j => f.calls[i] # f.calls[j]
    /\ \A i, j \in 1..Len(lastResult.calls) : i # j => lastResult.calls[i] # lastResult.calls[j]

\* The local state of a handle invocation, but for its generator and history.
Locals(f) ==
    <<f.code, f.data, f.copy, f.incoming, f.fake, f.modified, f.silenced,
      f.eventCache, f.iter, f.hooks, f.phase, f.cur, f.event>>

\* C15: a handle nested in a callback (through write) has an event cache and
\* flags of its own: whatever it does, the invocations around it keep theirs,
\* and when it has returned the one that called it goes on with the bytes, the
\* flags and the cache it had.
C15_NestedHandleIsIsolated ==
    [][\A i \in 1..Len(stack) :
            (i < Len(stack') \/ (i = Len(stack') /\ Len(stack') < Len(stack)))
                => Locals(stack'[i]) = Locals(stack[i])]_vars

\* An invocation is back in its callback after the write it made has gone
\* through a nested handle whose hooks committed an event; its own frame is
\* unmodified and has a parsed event in its cache.
C15_Witness ==
    /\ Len(stack) = 1
    /\ Top.phase = "cb"
    /\ ~Top.modified
    /\ \E v \in CacheKeys : Top.eventCache[v].has
    /\ lastResult.op = "write" /\ lastResult.outcome = "bytes"
    /\ lastResult.modified /\ Len(lastResult.calls) > 0

\* C17: when the bytes handle returns differ from the bytes it received,
\* modified is true at return, and it is true for every hook that is called
\* while the bytes differ from the original.
C17_ModifiedWhenBytesDiffer ==
    /\ (lastResult.op = "handle" /\ lastResult.outcome = "bytes"
            /\ lastResult.data # lastResult.input) => lastResult.modified
    /\ \A f \in Frames : (f.phase = "cb" /\ f.data # f.copy) => f.modified

\* C20: once unload(M), a failed load(M) or reset() has removed the hooks of M,
\* no callback of those hooks is called: no handle invokes one, and no timeout
\* armed before the removal calls callback(null).
C20_RemovedNeverCalled ==
    [][\A h \in HookIds :
            h \in unloadedHooks \cup rolledBack
                => /\ nullCalls'[h] = nullCalls[h]
                   /\ \A i \in 1..Len(stack') : stack'[i].cur # h]_vars

====
